---- MODULE Spec2Model ----
(***************************************************************************)
(* Model of devodsconnector/writer.py: the Writer's load paths (load,      *)
(* load_file, load_multi), the batching loops (_load, _load_multi), the    *)
(* wire encoder (_make_msg), the header builder (_make_message_header)     *)
(* and the decode-query generator (_build_linq).                           *)
(*                                                                         *)
(* Python strings are sequences of one-character strings.  A value that    *)
(* is not yet a string is a record [int |-> n]; a string value is a record *)
(* [str |-> s].  None is the record [none |-> TRUE].  The model starts     *)
(* from a Writer whose sender is connected; one behaviour is one call.     *)
(***************************************************************************)
EXTENDS Integers, Sequences, FiniteSets, TLC

\* ------------------------------------------------------------ bounds
\* Largest number of rows the input source may hold.
MaxRows == 101
\* Number of fields of a source row (timestamp and tag included).
RowWidth == 4
\* Largest number of fields of a row handed directly to _make_msg.
MaxMsgRow == 3

\* ------------------------------------------------- program constants
\* chunk_size of historical mode (writer.py lines 67, 98, 254).
HistoricalChunk == 50
\* chunk_size of live mode (writer.py lines 70, 101, 256).
LiveChunk == 1

\* ------------------------------------------------------ Python values
None == [none |-> TRUE]
IsNone(x) == "none" \in DOMAIN x
Some(x) == [v |-> x]
I(n) == [int |-> n]
S(s) == [str |-> s]

Digit(d) ==
  CASE d = 0 -> "0" [] d = 1 -> "1" [] d = 2 -> "2" [] d = 3 -> "3"
    [] d = 4 -> "4" [] d = 5 -> "5" [] d = 6 -> "6" [] d = 7 -> "7"
    [] d = 8 -> "8" [] d = 9 -> "9"

RECURSIVE NatStr(_)
\* str(n) of a non-negative integer: its decimal digits.
NatStr(n) == IF n < 10 THEN <<Digit(n)>> ELSE NatStr(n \div 10) \o <<Digit(n % 10)>>

\* str(c) as applied by _process_seq and _process_mapping.
PyStr(c) == IF "int" \in DOMAIN c THEN NatStr(c.int) ELSE c.str

RECURSIVE Join(_, _)
\* sep.join(parts)
Join(parts, sep) ==
  IF Len(parts) = 0 THEN <<>>
  ELSE IF Len(parts) = 1 THEN parts[1]
  ELSE parts[1] \o sep \o Join(Tail(parts), sep)

RECURSIVE CumSum(_)
\* np.cumsum(lengths)
CumSum(lengths) ==
  IF Len(lengths) = 0 THEN <<>>
  ELSE LET front == CumSum(SubSeq(lengths, 1, Len(lengths) - 1))
       IN  Append(front, (IF Len(front) = 0 THEN 0 ELSE front[Len(front)]) + lengths[Len(lengths)])

\* list.pop(i) for 0 <= i < len(list): the list that remains.
PopRest(list, i) == SubSeq(list, 1, i) \o SubSeq(list, i + 2, Len(list))
\* list.pop(i): the element returned (Python indexes from 0).
PopItem(list, i) == list[i + 1]
\* list.remove(x): the first occurrence of x removed.
Remove(list, x) ==
  LET at == CHOOSE k \in 1..Len(list) : list[k] = x /\ \A j \in 1..(k - 1) : list[j] # x
  IN  SubSeq(list, 1, at - 1) \o SubSeq(list, at + 1, Len(list))
Contains(list, x) == \E k \in 1..Len(list) : list[k] = x
\* list.index(x), 0-based.
IndexOf(list, x) ==
  (CHOOSE k \in 1..Len(list) : list[k] = x /\ \A j \in 1..(k - 1) : list[j] # x) - 1

\* ------------------------------------------------------ wire encoder
\* The local `indices` of _make_msg: the comma-joined cumulative offsets.
MakeIndices(row) ==
  LET lengths == <<0>> \o [k \in 1..Len(row) |-> Len(row[k])]
      indices == CumSum(lengths)
  IN  Join([k \in 1..Len(indices) |-> NatStr(indices[k])], <<",">>)

\* The local `row_concated` of _make_msg.
RowConcated(row) == Join(row, <<>>)

\* Mutant: the leading 0 is not inserted into the lengths.
MakeMsgNoLeadingZero(header, row) ==
  LET lengths == [k \in 1..Len(row) |-> Len(row[k])]
      indices == CumSum(lengths)
      idx == Join([k \in 1..Len(indices) |-> NatStr(indices[k])], <<",">>)
  IN  header \o idx \o <<"<", ">">> \o RowConcated(row) \o <<"\n">>

\* _make_msg(header, row)
MakeMsg(header, row) ==
  header \o MakeIndices(row) \o <<"<", ">">> \o RowConcated(row) \o <<"\n">>

\* ---------------------------------------------------- header builder
\* socket.gethostname()
HostName == <<"h">>
\* The placeholder '{0}' left in the historical header for the timestamp.
Slot == "{0}"

\* _make_message_header(tag, historical)
MakeMessageHeader(tag, historical) ==
  IF historical
  THEN <<"<", "1", "4", ">", Slot, " ">> \o HostName \o <<" ">>
         \o <<"(", "u", "s", "d", ")">> \o tag \o <<":", " ">>
  ELSE <<"<", "1", "4", ">", "J", "a", "n", " ", " ", "1", " ",
         "0", "0", ":", "0", "0", ":", "0", "0", " ">> \o HostName \o <<" ">>
         \o tag \o <<":", " ">>

RECURSIVE Format(_, _)
\* template.format(ts): every '{0}' replaced by ts.
Format(template, ts) ==
  IF Len(template) = 0 THEN <<>>
  ELSE (IF Head(template) = Slot THEN ts ELSE <<Head(template)>>) \o Format(Tail(template), ts)

\* ------------------------------------------------ decode-query generator
\* _build_linq(tag, num_cols, columns): the tag of the `from` clause and, in
\* order, the (i, col_name) pair each col_extract block is formatted with.
BuildLinq(tag, num_cols, columns) ==
  LET cols == IF IsNone(columns)
              THEN [k \in 1..num_cols |-> <<"c", "o", "l", "_">> \o NatStr(k - 1)]
              ELSE columns.v
  IN  [tag |-> tag, extracts |-> [k \in 1..Len(cols) |-> [i |-> k - 1, col_name |-> cols[k]]]]

\* ------------------------------------------------------ input source
\* Column j of the source is named k<j>.
ColName(j) == <<"k">> \o NatStr(j)
\* The value of column j in source row i: integers in odd columns, strings
\* (one with ',' and '<>' inside, one empty) in even columns.
FieldVal(i, j) ==
  IF j % 2 = 1 THEN I(10 * i + j)
  ELSE IF j % 4 = 2 THEN S(<<"a", ",", "<", ">">>)
  ELSE S(<<>>)

\* Key orders of a mapping record (first.keys()).
Ident == [j \in 1..RowWidth |-> j]
Reverse == [j \in 1..RowWidth |-> RowWidth + 1 - j]
Rotate == [j \in 1..RowWidth |-> (j % RowWidth) + 1]
Perms == {Ident, Reverse, Rotate}

ColOf(name) == CHOOSE j \in 1..RowWidth : ColName(j) = name

\* Source row i of call c; `miss` is the key a mapping row lacks, or None.
SrcRow(c, i, miss) ==
  IF c.api = "load_file"
  THEN [kind |-> "seq",
        items |-> [j \in 1..RowWidth |->
                     IF c.header /\ i = 1 THEN S(ColName(j)) ELSE S(PyStr(FieldVal(i, j)))]]
  ELSE IF c.kind = "seq"
  THEN [kind |-> "seq", items |-> [j \in 1..RowWidth |-> FieldVal(i, j)]]
  ELSE IF c.kind = "map"
  THEN LET all == [j \in 1..RowWidth |-> ColName(c.perm[j])]
           keys == IF IsNone(miss) THEN all
                   ELSE SelectSeq(all, LAMBDA nm : nm # miss.v)
       IN  [kind |-> "map", keys |-> keys,
            val |-> [nm \in {keys[k] : k \in 1..Len(keys)} |-> FieldVal(i, ColOf(nm))]]
  ELSE [kind |-> "other", len |-> RowWidth]

\* len(first)
PyLen(r) ==
  IF r.kind = "seq" THEN Len(r.items)
  ELSE IF r.kind = "map" THEN Len(r.keys)
  ELSE r.len

\* isinstance(first, abc.Sequence), isinstance(first, abc.Mapping)
IsSequence(r) == r.kind = "seq"
IsMapping(r) == r.kind = "map"

\* ------------------------------------------------------------- calls
Call(api, kind, historical, ts_index, ts_name, tag_index, tag_name, columns, header, linq_func, perm) ==
  [api |-> api, kind |-> kind, historical |-> historical,
   ts_index |-> ts_index, ts_name |-> ts_name,
   tag_index |-> tag_index, tag_name |-> tag_name,
   columns |-> columns, header |-> header, linq_func |-> linq_func,
   perm |-> perm, tag |-> <<"t">>]

\* Names of the columns other than those in `out`, in source order.
NamesWithout(out) ==
  LET all == [j \in 1..RowWidth |-> j]
      keep == SelectSeq(all, LAMBDA j : j \notin out)
  IN  [k \in 1..Len(keep) |-> ColName(keep[k])]

LoadSeqCalls ==
  {Call("load", "seq", TRUE, Some(t), None, None, None, cols, FALSE, lf, Ident) :
     t \in 0..(RowWidth - 1), cols \in {None}, lf \in BOOLEAN}
  \cup {Call("load", "seq", TRUE, Some(t), None, None, None,
             Some(NamesWithout({t + 1})), FALSE, TRUE, Ident) : t \in 0..(RowWidth - 1)}
  \cup {Call("load", "seq", FALSE, None, None, None, None, cols, FALSE, lf, Ident) :
          cols \in {None, Some(NamesWithout({}))}, lf \in BOOLEAN}

LoadMapCalls ==
  UNION {{Call("load", "map", h, None, Some(ColName(t)), None, None, cols, FALSE, TRUE, p) :
            h \in BOOLEAN, p \in {Ident, Rotate}, cols \in {None, Some(NamesWithout({t}))}} :
         t \in {1, RowWidth}}

LoadOtherCalls ==
  {Call("load", "other", h, Some(0), None, None, None, None, FALSE, TRUE, Ident) :
     h \in BOOLEAN}

LoadFileCalls ==
  UNION {{Call("load_file", "seq", TRUE, Some(t), None, None, None, cols, hd, TRUE, Ident) :
            hd \in BOOLEAN, cols \in {None, Some(NamesWithout({t + 1}))}} :
         t \in {0, RowWidth - 1}}
  \cup UNION {{Call("load_file", "seq", TRUE, None, Some(ColName(t)), None, None, cols,
                    TRUE, TRUE, Ident) :
                 cols \in {None, Some(NamesWithout({t}))}} :
              t \in {1, 2}}
  \cup {Call("load_file", "seq", FALSE, None, None, None, None, cols, hd, lf, Ident) :
          hd \in BOOLEAN, cols \in {None, Some(NamesWithout({}))}, lf \in BOOLEAN}

LoadMultiSeqCalls ==
  {Call("load_multi", "seq", TRUE, Some(t), None, Some(g), None, None, FALSE, FALSE, Ident) :
     t \in 0..(RowWidth - 1), g \in 0..(RowWidth - 1)}
  \cup {Call("load_multi", "seq", FALSE, None, None, Some(g), None, None, FALSE, FALSE, Ident) :
          g \in 0..(RowWidth - 1)}

LoadMultiMapCalls ==
  {Call("load_multi", "map", h, None, Some(ColName(tg[1])), None, Some(ColName(tg[2])),
        None, FALSE, FALSE, p) :
     h \in BOOLEAN, p \in Perms, tg \in {<<1, 2>>, <<RowWidth, 1>>, <<2, RowWidth>>}}

LoadMultiOtherCalls ==
  {Call("load_multi", "other", h, Some(0), None, Some(1), None, None, FALSE, FALSE, Ident) :
     h \in BOOLEAN}

\* A direct call of the static method _make_msg(header, row).
MakeMsgCall == Call("_make_msg", "seq", FALSE, None, None, None, None, None, FALSE, FALSE, Ident)

Calls ==
  LoadSeqCalls \cup LoadMapCalls \cup LoadOtherCalls \cup LoadFileCalls
    \cup LoadMultiSeqCalls \cup LoadMultiMapCalls \cup LoadMultiOtherCalls

\* Fields and rows handed directly to _make_msg.
FieldPool ==
  {<<>>, <<"a">>, <<",">>, <<"<", ">">>, <<"a", ",", "b">>, <<"7">>,
   <<"x", "x", "x", "x", "x", "x", "x", "x", "x", "x", "x">>}
RECURSIVE RowsOfLen(_)
RowsOfLen(n) ==
  IF n = 0 THEN {<<>>}
  ELSE {Append(r, f) : r \in RowsOfLen(n - 1), f \in FieldPool}
MsgRows == UNION {RowsOfLen(n) : n \in 0..MaxMsgRow}
MsgHeaders == {MakeMessageHeader(<<"t">>, FALSE),
               Format(MakeMessageHeader(<<"<", ">">>, TRUE), <<"1", "0", "0">>)}

\* The keys whose absence from a mapping row is an input-shape error.
Required(c) ==
  IF c.kind # "map" \/ c.api = "_make_msg" THEN {}
  ELSE IF c.api = "load" THEN (IF c.historical THEN {c.ts_name} ELSE {})
  ELSE IF c.historical THEN {c.ts_name, c.tag_name} ELSE {c.tag_name}

\* ------------------------------------------------------------- state
VARIABLES
  call,            \* the call in progress and its arguments
  pc,              \* "start", "_load", "_load_multi", "done" or "error"
  err,             \* the exception that ended the call, "" if none
  pos,             \* rows the source iterator has yielded since it was last rewound
  known,           \* rows the source is known to hold so far
  eof,             \* the source has raised StopIteration
  missing,         \* the key that source row `known` lacks, or None
  first,           \* the local `first`
  gen,             \* what `data` is: "seq", "map" (a generator) or "raw" (the source)
  pending,         \* the generator has not yet yielded `first`
  names,           \* the local `names`
  ts_index, tag_index, chunk_size, num_cols, columns,
  linq,            \* the local `linq`, None while not built
  counter, bulk_msg, ts, tag, row, message_header,
  msg,             \* the value the last _make_msg call returned
  sent,            \* the buffers send_raw has delivered, in order
  failed           \* the buffers whose send_raw raised, in order

vars == <<call, pc, err, pos, known, eof, missing, first, gen, pending, names,
          ts_index, tag_index, chunk_size, num_cols, columns, linq, counter,
          bulk_msg, ts, tag, row, message_header, msg, sent, failed>>

source == <<pos, known, eof, missing>>
locals == <<first, gen, pending, names, ts_index, tag_index, chunk_size, num_cols,
            columns, linq>>
loopvars == <<counter, bulk_msg, ts, tag, row, message_header, msg>>
transport == <<sent, failed>>

\* A constructed Writer with a connected sender, about to serve one call.
\* (__init__ as written reads the undefined name `credentials` at line 30; the
\* load paths are modelled for an instance whose sender exists.)
Init ==
  /\ pc = "start" /\ err = ""
  /\ pos = 0 /\ known = 1 /\ eof = FALSE
  /\ first = None /\ gen = "raw" /\ pending = FALSE /\ names = <<>>
  /\ ts_index = None /\ tag_index = None /\ chunk_size = 0 /\ num_cols = 0
  /\ columns = None /\ linq = None
  /\ counter = 0 /\ bulk_msg = <<>> /\ ts = <<>> /\ tag = <<>> /\ msg = <<>>
  /\ sent = <<>> /\ failed = <<>>
  /\ \/ /\ call \in Calls
        /\ missing \in {None} \cup Required(call)
        /\ row = <<>> /\ message_header = <<>>
     \/ /\ call = MakeMsgCall
        /\ missing = None
        /\ row \in MsgRows /\ message_header \in MsgHeaders

\* ------------------------------------------------------ the generators
\* One row of _process_seq: [str(c) for c in row].
ProcessSeq(r) == [k \in 1..Len(r.items) |-> PyStr(r.items[k])]

\* Mutant: a key the row lacks is read as the empty string instead of raising.
ProcessMappingLenient(r, nms) ==
  [ok |-> TRUE,
   row |-> [k \in 1..Len(nms) |->
              IF nms[k] \in DOMAIN r.val THEN PyStr(r.val[nms[k]]) ELSE <<>>]]

\* One row of _process_mapping: [str(row[c]) for c in names]; row[c] raises
\* KeyError when the row lacks the key.
ProcessMapping(r, nms) ==
  IF \A k \in 1..Len(nms) : nms[k] \in DOMAIN r.val
  THEN [ok |-> TRUE, row |-> [k \in 1..Len(nms) |-> PyStr(r.val[nms[k]])]]
  ELSE [ok |-> FALSE, row |-> <<>>]

\* What `for row in data` can get next from the source: a row, or StopIteration.
Fetches ==
  IF pending
  THEN {[st |-> "row", raw |-> first, pos |-> pos, known |-> known, eof |-> eof,
         missing |-> missing, pending |-> FALSE]}
  ELSE IF pos < known
  THEN {[st |-> "row", raw |-> SrcRow(call, pos + 1, IF pos + 1 = known THEN missing ELSE None),
         pos |-> pos + 1, known |-> known, eof |-> eof, missing |-> missing,
         pending |-> FALSE]}
  ELSE {[st |-> "stop", raw |-> None, pos |-> pos, known |-> known, eof |-> TRUE,
         missing |-> missing, pending |-> FALSE]}
       \cup (IF known < MaxRows /\ ~eof
             THEN {[st |-> "row", raw |-> SrcRow(call, known + 1, m), pos |-> known + 1,
                    known |-> known + 1, eof |-> FALSE, missing |-> m, pending |-> FALSE] :
                     m \in {None} \cup Required(call)}
             ELSE {})

\* The row the generator (or the csv reader) hands to the loop for raw row r.
Normalise(r) ==
  IF gen = "seq" THEN [ok |-> TRUE, row |-> ProcessSeq(r)]
  ELSE IF gen = "map" THEN ProcessMapping(r, names)
  ELSE IF r.kind = "seq" THEN [ok |-> TRUE, row |-> [k \in 1..Len(r.items) |-> r.items[k].str]]
  ELSE [ok |-> TRUE, row |-> <<>>]

\* ------------------------------------------------------------ batching
\* counter == chunk_size
ChunkFull(n, cs) == n = cs

\* Mutant: a failed write is swallowed, the batch dropped and the loop goes on.
AccumulateSwallow(bulk, cnt, cs, m, ok) ==
  LET b == bulk \o m
      n == cnt + 1
  IN  IF ChunkFull(n, cs)
      THEN [bulk |-> <<>>, counter |-> 0, wrote |-> IF ok THEN <<b>> ELSE <<>>,
            lost |-> IF ok THEN <<>> ELSE <<b>>, raised |-> FALSE]
      ELSE [bulk |-> b, counter |-> n, wrote |-> <<>>, lost |-> <<>>, raised |-> FALSE]

\* The tail of a loop iteration: append the message, count it, and write the
\* buffer when it is full; `ok` is whether send_raw succeeds.
Accumulate(bulk, cnt, cs, m, ok) ==
  LET b == bulk \o m
      n == cnt + 1
  IN  IF ChunkFull(n, cs)
      THEN IF ok
           THEN [bulk |-> <<>>, counter |-> 0, wrote |-> <<b>>, lost |-> <<>>, raised |-> FALSE]
           ELSE [bulk |-> b, counter |-> n, wrote |-> <<>>, lost |-> <<b>>, raised |-> TRUE]
      ELSE [bulk |-> b, counter |-> n, wrote |-> <<>>, lost |-> <<>>, raised |-> FALSE]

\* Mutant: the remainder is not flushed after the loop.
FinalFlushNone(bulk, ok) == [wrote |-> <<>>, lost |-> <<>>, raised |-> FALSE]

\* After the loop: `if bulk_msg: send_raw(bulk_msg)`; bulk_msg is left as it is.
FinalFlush(bulk, ok) ==
  IF bulk # <<>>
  THEN IF ok THEN [wrote |-> <<bulk>>, lost |-> <<>>, raised |-> FALSE]
       ELSE [wrote |-> <<>>, lost |-> <<bulk>>, raised |-> TRUE]
  ELSE [wrote |-> <<>>, lost |-> <<>>, raised |-> FALSE]

\* Mutant: the timestamp is always popped first, whatever the order of the indexes.
PopTsTagAscending(r, ti, gi) ==
  IF ti = gi THEN [ok |-> FALSE, ts |-> <<>>, tag |-> <<>>, row |-> r]
  ELSE LET rest == PopRest(r, ti)
       IN  [ok |-> TRUE, ts |-> PopItem(r, ti),
            tag |-> IF gi < Len(rest) THEN PopItem(rest, gi) ELSE <<>>,
            row |-> IF gi < Len(rest) THEN PopRest(rest, gi) ELSE rest]

\* Mutant: equal indexes are not rejected; the field is popped once.
PopTsTagUnchecked(r, ti, gi) ==
  IF ti < gi
  THEN [ok |-> TRUE, tag |-> PopItem(r, gi), ts |-> PopItem(PopRest(r, gi), ti),
        row |-> PopRest(PopRest(r, gi), ti)]
  ELSE IF gi < ti
  THEN [ok |-> TRUE, ts |-> PopItem(r, ti), tag |-> PopItem(PopRest(r, ti), gi),
        row |-> PopRest(PopRest(r, ti), gi)]
  ELSE [ok |-> TRUE, ts |-> PopItem(r, ti), tag |-> PopItem(r, ti), row |-> PopRest(r, ti)]

\* The historical branch of _load_multi: pop in reverse order of index, or
\* raise 'ts and tag were assigned same index'.
PopTsTag(r, ti, gi) ==
  IF ti < gi
  THEN [ok |-> TRUE, tag |-> PopItem(r, gi), ts |-> PopItem(PopRest(r, gi), ti),
        row |-> PopRest(PopRest(r, gi), ti)]
  ELSE IF gi < ti
  THEN [ok |-> TRUE, ts |-> PopItem(r, ti), tag |-> PopItem(PopRest(r, ti), gi),
        row |-> PopRest(PopRest(r, ti), gi)]
  ELSE [ok |-> FALSE, ts |-> <<>>, tag |-> <<>>, row |-> r]

\* ------------------------------------------------------- entry points
\* The chunk size a call uses.
ChunkSize(historical) == IF historical THEN HistoricalChunk ELSE LiveChunk

\* The first lines of _load and _load_multi: counter = 0, bulk_msg = '' and,
\* in _load, the header when the call is not historical.
EnterLoop(single) ==
  /\ counter' = 0 /\ bulk_msg' = <<>>
  /\ tag' = IF single THEN call.tag ELSE tag
  /\ message_header' = IF single /\ ~call.historical
                       THEN MakeMessageHeader(call.tag, FALSE) ELSE message_header
  /\ UNCHANGED <<ts, row, msg>>

\* load(data, tag, historical, ts_index, ts_name, columns, linq_func).  A first
\* record that is no Sequence reaches line 106, whose isinstance tuple names
\* pd, which the module never imports: NameError.
Load ==
  /\ pc = "start" /\ call.api = "load"
  /\ LET f == SrcRow(call, 1, missing)
         nc == IF call.historical THEN PyLen(f) - 1 ELSE PyLen(f)
     IN  /\ first' = f /\ pos' = 1
         /\ chunk_size' = ChunkSize(call.historical) /\ num_cols' = nc
         /\ IF IsSequence(f)
            THEN /\ gen' = "seq" /\ pending' = TRUE
                 /\ columns' = call.columns /\ ts_index' = call.ts_index
                 /\ linq' = IF call.linq_func
                            THEN Some(BuildLinq(call.tag, nc, call.columns)) ELSE None
                 /\ pc' = "_load" /\ err' = ""
                 /\ EnterLoop(TRUE)
            ELSE /\ pc' = "error" /\ err' = "NameError"
                 /\ UNCHANGED <<gen, pending, columns, ts_index, linq, loopvars>>
  /\ UNCHANGED <<call, known, eof, missing, names, tag_index, transport>>

\* load_file(file_path, tag, historical, ts_index, ts_name, delimiter, header,
\* columns, linq_func): the csv reader yields lists of strings; without a
\* header the file is rewound, with one the header row is columns unless given.
LoadFile ==
  /\ pc = "start" /\ call.api = "load_file"
  /\ LET f == SrcRow(call, 1, missing)
         nc == IF call.historical THEN PyLen(f) - 1 ELSE PyLen(f)
         cols == IF call.header /\ IsNone(call.columns)
                 THEN Some([k \in 1..Len(f.items) |-> f.items[k].str])
                 ELSE call.columns
         byName == call.header /\ ~IsNone(call.ts_name)
     IN  /\ first' = f /\ pos' = IF call.header THEN 1 ELSE 0
         /\ chunk_size' = ChunkSize(call.historical) /\ num_cols' = nc
         /\ columns' = cols
         /\ gen' = "raw" /\ pending' = FALSE
         /\ IF byName /\ ~Contains(cols.v, call.ts_name.v)
            THEN /\ pc' = "error" /\ err' = "ValueError"
                 /\ UNCHANGED <<ts_index, linq, loopvars>>
            ELSE /\ ts_index' = IF byName THEN Some(IndexOf(cols.v, call.ts_name.v))
                                ELSE call.ts_index
                 /\ linq' = IF call.linq_func
                            THEN Some(BuildLinq(call.tag, nc, cols)) ELSE None
                 /\ pc' = "_load" /\ err' = ""
                 /\ EnterLoop(TRUE)
  /\ UNCHANGED <<call, known, eof, missing, names, tag_index, transport>>

\* The mapping branch of load_multi: names, ts_index and tag_index resolved
\* from the first record; list.remove raises ValueError for an absent name.
ResolveMulti(f, historical, ts_name, tag_name, nc) ==
  LET keys == f.keys
      has(n) == ~IsNone(n) /\ Contains(keys, n.v)
  IN  IF historical
      THEN IF has(ts_name) /\ has(tag_name) /\ ts_name # tag_name
           THEN [ok |-> TRUE, ts_index |-> Some(nc - 2), tag_index |-> Some(nc - 1),
                 names |-> Remove(Remove(keys, ts_name.v), tag_name.v)
                             \o <<ts_name.v, tag_name.v>>]
           ELSE [ok |-> FALSE, ts_index |-> Some(nc - 2), tag_index |-> Some(nc - 1),
                 names |-> keys]
      ELSE IF has(tag_name)
           THEN [ok |-> TRUE, ts_index |-> None, tag_index |-> Some(nc - 1),
                 names |-> Remove(keys, tag_name.v) \o <<tag_name.v>>]
           ELSE [ok |-> FALSE, ts_index |-> None, tag_index |-> Some(nc - 1),
                 names |-> keys]

\* load_multi(data, tag_index, tag_name, historical, ts_index, ts_name, ...).
\* A first record that is neither Sequence nor Mapping matches no branch:
\* `data` stays the source iterator, from which `first` is already gone.
LoadMulti ==
  /\ pc = "start" /\ call.api = "load_multi"
  /\ LET f == SrcRow(call, 1, missing)
         nc == PyLen(f)
         res == ResolveMulti(f, call.historical, call.ts_name, call.tag_name, nc)
     IN  /\ first' = f /\ pos' = 1
         /\ chunk_size' = ChunkSize(call.historical) /\ num_cols' = nc
         /\ columns' = Some(<<>>)
         /\ IF IsSequence(f)
            THEN /\ gen' = "seq" /\ pending' = TRUE
                 /\ ts_index' = call.ts_index /\ tag_index' = call.tag_index
                 /\ names' = names
                 /\ pc' = "_load_multi" /\ err' = ""
                 /\ EnterLoop(FALSE)
            ELSE IF IsMapping(f)
            THEN IF res.ok
                 THEN /\ gen' = "map" /\ pending' = TRUE
                      /\ ts_index' = res.ts_index /\ tag_index' = res.tag_index
                      /\ names' = res.names
                      /\ pc' = "_load_multi" /\ err' = ""
                      /\ EnterLoop(FALSE)
                 ELSE /\ pc' = "error" /\ err' = "ValueError"
                      /\ UNCHANGED <<gen, pending, ts_index, tag_index, names, loopvars>>
            ELSE /\ gen' = "raw" /\ pending' = FALSE
                 /\ ts_index' = call.ts_index /\ tag_index' = call.tag_index
                 /\ names' = names
                 /\ pc' = "_load_multi" /\ err' = ""
                 /\ EnterLoop(FALSE)
  /\ UNCHANGED <<call, known, eof, missing, linq, transport>>

\* ------------------------------------------------------------ the loops
\* One iteration of the for loop of _load (lines 153-165).
LoadRow ==
  /\ pc = "_load"
  /\ \E f \in Fetches : \E ok \in BOOLEAN :
       /\ f.st = "row"
       /\ pos' = f.pos /\ known' = f.known /\ eof' = f.eof /\ missing' = f.missing
       /\ pending' = f.pending
       /\ LET n == Normalise(f.raw)
              r == n.row
              hdr == IF call.historical
                     THEN Format(MakeMessageHeader(call.tag, TRUE), PopItem(r, ts_index.v))
                     ELSE message_header
              r1 == IF call.historical THEN PopRest(r, ts_index.v) ELSE r
              m == MakeMsg(hdr, r1)
              acc == Accumulate(bulk_msg, counter, chunk_size, m, ok)
          IN  IF ~n.ok
              THEN /\ pc' = "error" /\ err' = "KeyError"
                   /\ UNCHANGED <<loopvars, transport>>
              ELSE IF call.historical /\ (IsNone(ts_index) \/ f.raw.kind # "seq")
              THEN /\ pc' = "error" /\ err' = "TypeError"
                   /\ row' = r
                   /\ UNCHANGED <<counter, bulk_msg, ts, tag, message_header, msg, transport>>
              ELSE /\ ts' = IF call.historical THEN PopItem(r, ts_index.v) ELSE ts
                   /\ row' = r1 /\ message_header' = hdr /\ msg' = m
                   /\ bulk_msg' = acc.bulk /\ counter' = acc.counter
                   /\ sent' = sent \o acc.wrote /\ failed' = failed \o acc.lost
                   /\ pc' = IF acc.raised THEN "error" ELSE "_load"
                   /\ err' = IF acc.raised THEN "TransportError" ELSE ""
                   /\ UNCHANGED tag
  /\ UNCHANGED <<call, first, gen, names, ts_index, tag_index, chunk_size, num_cols,
                 columns, linq>>

\* The source is exhausted: the loop of _load ends, the remainder is flushed
\* (lines 167-168) and the call returns.
LoadEnd ==
  /\ pc = "_load"
  /\ \E f \in Fetches : \E ok \in BOOLEAN :
       /\ f.st = "stop"
       /\ eof' = f.eof
       /\ LET fl == FinalFlush(bulk_msg, ok)
          IN  /\ sent' = sent \o fl.wrote /\ failed' = failed \o fl.lost
              /\ pc' = IF fl.raised THEN "error" ELSE "done"
              /\ err' = IF fl.raised THEN "TransportError" ELSE ""
  /\ UNCHANGED <<call, pos, known, missing, locals, loopvars>>

\* One iteration of the for loop of _load_multi (lines 289-315).  A row that is
\* no list has no pop(index): AttributeError.
LoadMultiRow ==
  /\ pc = "_load_multi"
  /\ \E f \in Fetches : \E ok \in BOOLEAN :
       /\ f.st = "row"
       /\ pos' = f.pos /\ known' = f.known /\ eof' = f.eof /\ missing' = f.missing
       /\ pending' = f.pending
       /\ LET n == Normalise(f.raw)
              r == n.row
              p == IF call.historical
                   THEN PopTsTag(r, ts_index.v, tag_index.v)
                   ELSE [ok |-> TRUE, ts |-> ts, tag |-> PopItem(r, tag_index.v),
                         row |-> PopRest(r, tag_index.v)]
              hdr == IF call.historical
                     THEN Format(MakeMessageHeader(p.tag, TRUE), p.ts)
                     ELSE MakeMessageHeader(p.tag, FALSE)
              m == MakeMsg(hdr, p.row)
              acc == Accumulate(bulk_msg, counter, chunk_size, m, ok)
          IN  IF ~n.ok
              THEN /\ pc' = "error" /\ err' = "KeyError"
                   /\ UNCHANGED <<loopvars, transport>>
              ELSE IF gen = "raw"
              THEN /\ pc' = "error" /\ err' = "AttributeError"
                   /\ UNCHANGED <<loopvars, transport>>
              ELSE IF ~p.ok
              THEN /\ pc' = "error" /\ err' = "SameIndex"
                   /\ row' = r
                   /\ UNCHANGED <<counter, bulk_msg, ts, tag, message_header, msg, transport>>
              ELSE /\ ts' = p.ts /\ tag' = p.tag /\ row' = p.row
                   /\ message_header' = hdr /\ msg' = m
                   /\ bulk_msg' = acc.bulk /\ counter' = acc.counter
                   /\ sent' = sent \o acc.wrote /\ failed' = failed \o acc.lost
                   /\ pc' = IF acc.raised THEN "error" ELSE "_load_multi"
                   /\ err' = IF acc.raised THEN "TransportError" ELSE ""
  /\ UNCHANGED <<call, first, gen, names, ts_index, tag_index, chunk_size, num_cols,
                 columns, linq>>

\* The source is exhausted: the loop of _load_multi ends, the remainder is
\* flushed (lines 317-318) and the call returns.
LoadMultiEnd ==
  /\ pc = "_load_multi"
  /\ \E f \in Fetches : \E ok \in BOOLEAN :
       /\ f.st = "stop"
       /\ eof' = f.eof
       /\ LET fl == FinalFlush(bulk_msg, ok)
          IN  /\ sent' = sent \o fl.wrote /\ failed' = failed \o fl.lost
              /\ pc' = IF fl.raised THEN "error" ELSE "done"
              /\ err' = IF fl.raised THEN "TransportError" ELSE ""
  /\ UNCHANGED <<call, pos, known, missing, locals, loopvars>>

\* A direct call of _make_msg(header, row).
MakeMsgDirect ==
  /\ pc = "start" /\ call.api = "_make_msg"
  /\ msg' = MakeMsg(message_header, row)
  /\ pc' = "done"
  /\ UNCHANGED <<call, err, source, locals, counter, bulk_msg, ts, tag, row,
                 message_header, transport>>

Next ==
  \/ Load
  \/ LoadFile
  \/ LoadMulti
  \/ LoadRow
  \/ LoadEnd
  \/ LoadMultiRow
  \/ LoadMultiEnd
  \/ MakeMsgDirect

Spec == Init /\ [][Next]_vars

TypeOK ==
  /\ pc \in {"start", "_load", "_load_multi", "done", "error"}
  /\ counter \in 0..HistoricalChunk
  /\ pos \in 0..MaxRows /\ known \in 1..MaxRows

\* ---------------------------------------------- what the claims refer to
\* Decoding a wire message, as the decode query does: the text before the
\* first '<>' split on ',' and read as integers, and the text after it.
IsSepAt(body, k) == k < Len(body) /\ body[k] = "<" /\ body[k + 1] = ">"
HasSep(body) == \E k \in 1..Len(body) : IsSepAt(body, k)
SepAt(body) ==
  CHOOSE k \in 1..Len(body) : IsSepAt(body, k) /\ \A j \in 1..(k - 1) : ~IsSepAt(body, j)

RECURSIVE SplitComma(_)
SplitComma(str) ==
  IF \E k \in 1..Len(str) : str[k] = ","
  THEN LET at == CHOOSE k \in 1..Len(str) : str[k] = "," /\ \A j \in 1..(k - 1) : str[j] # ","
       IN  <<SubSeq(str, 1, at - 1)>> \o SplitComma(SubSeq(str, at + 1, Len(str)))
  ELSE <<str>>

IsDigit(ch) == \E v \in 0..9 : Digit(v) = ch
IsNumber(str) == Len(str) > 0 /\ \A k \in 1..Len(str) : IsDigit(str[k])
RECURSIVE ParseNat(_)
ParseNat(str) ==
  IF Len(str) = 0 THEN 0
  ELSE 10 * ParseNat(SubSeq(str, 1, Len(str) - 1))
         + (CHOOSE v \in 0..9 : Digit(v) = str[Len(str)])

\* The message without its header, its index string and its payload string.
Body == SubSeq(msg, Len(message_header) + 1, Len(msg))
IndexEntries == SplitComma(SubSeq(Body, 1, SepAt(Body) - 1))
Payload == SubSeq(Body, SepAt(Body) + 2, Len(Body) - 1)

\* Source rows that never reach the loop: the header row of a file, and the
\* first record of a load_multi call whose records match no branch.
Skipped ==
  IF (call.api = "load_file" /\ call.header) \/ (call.api = "load_multi" /\ call.kind = "other")
  THEN 1 ELSE 0
\* Rows the loop has taken from `data` so far.
LoopRows == IF pending \/ pc = "start" THEN 0 ELSE pos - Skipped

\* The source column holding the timestamp / the tag of the call, 0 if none.
TsCol ==
  IF ~call.historical THEN 0
  ELSE IF call.kind = "map" \/ (call.api = "load_file" /\ IsNone(call.ts_index))
  THEN ColOf(call.ts_name.v)
  ELSE call.ts_index.v + 1
TagCol ==
  IF call.api # "load_multi" THEN 0
  ELSE IF call.kind = "map" THEN ColOf(call.tag_name.v)
  ELSE call.tag_index.v + 1
\* The source columns of the encoded fields, in the order the caller fixed:
\* the given columns or the key order of the first mapping, else source order.
DataCols ==
  LET order == IF call.kind = "map"
               THEN (IF call.api = "load" /\ ~IsNone(call.columns)
                     THEN [k \in 1..Len(call.columns.v) |-> ColOf(call.columns.v[k])]
                     ELSE IF call.api = "load" THEN Ident
                     ELSE call.perm)
               ELSE Ident
  IN  SelectSeq(order, LAMBDA j : j # TsCol /\ j # TagCol)

\* Timestamp, tag, fields and wire message expected for source row i.
ExpTs(i) == PyStr(FieldVal(i, TsCol))
ExpTag(i) == IF TagCol = 0 THEN call.tag ELSE PyStr(FieldVal(i, TagCol))
ExpFields(i) == [k \in 1..Len(DataCols) |-> PyStr(FieldVal(i, DataCols[k]))]
ExpMsg(i) ==
  MakeMsg(IF call.historical
          THEN Format(MakeMessageHeader(ExpTag(i), TRUE), ExpTs(i))
          ELSE MakeMessageHeader(ExpTag(i), FALSE),
          ExpFields(i))

RECURSIVE ExpBuffer(_, _)
\* The concatenated wire messages of source rows lo..hi.
ExpBuffer(lo, hi) ==
  IF lo > hi THEN <<>>
  ELSE IF lo = hi THEN ExpMsg(lo)
  ELSE ExpBuffer(lo, (lo + hi) \div 2) \o ExpBuffer((lo + hi) \div 2 + 1, hi)

Min(a, b) == IF a < b THEN a ELSE b
CeilDiv(a, b) == (a + b - 1) \div b
Capacity == IF call.historical THEN HistoricalChunk ELSE LiveChunk
\* The k-th batch of the first n rows entering the loop.
ExpBatch(k, n) == ExpBuffer(Skipped + (k - 1) * Capacity + 1, Skipped + Min(k * Capacity, n))

IsLoadCall == call.api \in {"load", "load_file", "load_multi"}

\* ------------------------------------------------------------------ C1
\* C1: a call that returns without a failed write has issued ceil(N/50)
\* writes in historical mode and N writes in live mode, N >= 1 being the
\* rows its loop (_load or _load_multi) was fed.
C1_WriteCount ==
  (IsLoadCall /\ pc = "done" /\ LoopRows >= 1) =>
    /\ failed = <<>>
    /\ call.historical => Len(sent) = CeilDiv(LoopRows, 50)
    /\ ~call.historical => Len(sent) = LoopRows

C1_Witness ==
  /\ pc = "done" /\ call.historical /\ LoopRows = 2 * HistoricalChunk + 1
  /\ Len(sent) = 3 /\ call.api = "load_multi"

\* ------------------------------------------------------------------ C2
\* C2: the index string of every message _make_msg returns has len(row)+1
\* entries, starts at 0 and is non-decreasing, and slicing the payload from
\* entry i to entry i+1 gives back field i of the row.
C2_RoundTrip ==
  (msg # <<>>) =>
    /\ msg[Len(msg)] = "\n"
    /\ SubSeq(msg, 1, Len(message_header)) = message_header
    /\ HasSep(Body)
    /\ Len(IndexEntries) = Len(row) + 1
    /\ \A k \in 1..Len(IndexEntries) : IsNumber(IndexEntries[k])
    /\ ParseNat(IndexEntries[1]) = 0
    /\ \A k \in 1..Len(row) :
         /\ ParseNat(IndexEntries[k]) <= ParseNat(IndexEntries[k + 1])
         /\ SubSeq(Payload, ParseNat(IndexEntries[k]) + 1, ParseNat(IndexEntries[k + 1])) = row[k]

C2_Witness ==
  /\ call.api = "_make_msg" /\ pc = "done"
  /\ row = << <<"<", ">">>, <<>>, <<"a", ",", "b">> >>
  /\ Payload = <<"<", ">", "a", ",", "b">>

\* A row has been encoded and the locals ts, tag, row, msg are those of source
\* row `pos`, the last one the loop took.
RowEncoded ==
  /\ IsLoadCall /\ ~pending /\ msg # <<>>
  /\ pc \in {"_load", "_load_multi", "done"} \/ err = "TransportError"

\* ------------------------------------------------------------------ C3
\* The name of the column whose value is the i-th encoded field: the i-th
\* synthesized name when sequence rows come without names, else the name the
\* caller's ordering gives the column.
EncodedName(i) ==
  IF call.kind = "seq" /\ IsNone(call.columns)
  THEN <<"c", "o", "l", "_">> \o NatStr(i - 1)
  ELSE ColName(DataCols[i])

\* C3: in a load() call on sequence or mapping records that asks for the
\* decode query, the query is built and its i-th extraction expression is
\* labelled with the column whose value is the i-th encoded field.
C3_SameOrdering ==
  (call.api = "load" /\ call.kind \in {"seq", "map"} /\ call.linq_func
     /\ missing = None /\ pc # "start") =>
    /\ ~IsNone(linq)
    /\ Len(linq.v.extracts) = Len(DataCols)
    /\ \A k \in 1..Len(DataCols) :
         /\ linq.v.extracts[k].i = k - 1
         /\ linq.v.extracts[k].col_name = EncodedName(k)
    /\ RowEncoded => row = ExpFields(pos)

\* ------------------------------------------------------------------ C4
\* C4: whenever a decode query was emitted and a row has been encoded, the
\* query has as many extraction expressions as the encoded row has fields.
C4_SameLength ==
  (RowEncoded /\ ~IsNone(linq)) => Len(linq.v.extracts) = Len(row)

\* ------------------------------------------------------------------ C5
\* C5: a historical load_multi call whose ts_index and tag_index are equal
\* writes nothing, and fails with the same-index error once its loop takes
\* the first row.
C5_SameIndexFails ==
  (call.api = "load_multi" /\ call.historical /\ call.kind = "seq"
     /\ call.ts_index = call.tag_index) =>
    /\ sent = <<>> /\ failed = <<>>
    /\ (pc # "start" /\ ~pending) => (pc = "error" /\ err = "SameIndex")
    /\ pc # "done"

C5_Witness ==
  /\ call.api = "load_multi" /\ call.historical /\ call.ts_index = call.tag_index
  /\ pc = "error" /\ err = "SameIndex" /\ sent = <<>> /\ failed = <<>>

\* ------------------------------------------------------------------ C6
\* The call failed on the shape of its input: an unsupported first record
\* (NameError in load, AttributeError at the first pop in load_multi), or a
\* mapping row that lacks a required field (ValueError from names.remove for
\* the first row, KeyError from the generator for a later one).
ShapeError ==
  /\ pc = "error" /\ call.api \in {"load", "load_multi"}
  /\ err \in {"NameError", "AttributeError", "ValueError", "KeyError"}

\* C6 as stated: at every input-shape error, on the first row or a later one,
\* no write has been issued.
C6_NoWriteBeforeShapeError ==
  ShapeError => (sent = <<>> /\ failed = <<>>)

\* C6 amended: an input-shape error on the first record is raised before any
\* write; a later mapping row that lacks a required field raises when the
\* loop reaches it, after exactly the full batches of the rows before it.
C6_FirstRowFailsFast ==
  /\ (ShapeError /\ err # "KeyError") => (sent = <<>> /\ failed = <<>> /\ msg = <<>>)
  /\ (ShapeError /\ err = "KeyError") =>
       /\ pos >= 2 /\ missing # None /\ failed = <<>>
       /\ Len(sent) = (pos - 1) \div Capacity
       /\ \A k \in 1..Len(sent) : sent[k] = ExpBatch(k, pos - 1)
  /\ (call.api = "load_multi" /\ call.kind = "map" /\ missing # None
        /\ pos = known /\ ~pending /\ pc # "start") => ShapeError

C6_Witness ==
  /\ ShapeError /\ err = "KeyError" /\ call.historical
  /\ pos = HistoricalChunk + 1 /\ Len(sent) = 1

\* ------------------------------------------------------------------ C7
\* C7: once a write has failed the call has ended with that error: the failed
\* buffer was written once, the writes before it are the earlier full batches
\* in order, and the rows taken are exactly those of these batches and of the
\* failed one.
C7_FailurePropagates ==
  (failed # <<>>) =>
    /\ pc = "error" /\ err = "TransportError"
    /\ Len(failed) = 1
    /\ LoopRows >= 1
    /\ Len(sent) = (LoopRows - 1) \div Capacity
    /\ \A k \in 1..Len(sent) : sent[k] = ExpBatch(k, LoopRows)
    /\ failed[1] = ExpBatch(Len(sent) + 1, LoopRows)
    /\ (LoopRows % Capacity # 0) => eof

C7_Witness ==
  /\ failed # <<>> /\ call.historical /\ Len(sent) = 1
  /\ LoopRows = 2 * HistoricalChunk /\ ~eof /\ pc = "error"

\* ------------------------------------------------------------------ C8
\* C8: a historical load() call on mapping records resolves the field order
\* with the timestamp last and ts_index at that position; the timestamp
\* popped from a row is its ts_name value and the encoded fields are the
\* values of the Column Set columns in order.
C8_TimestampLast ==
  (call.api = "load" /\ call.kind = "map" /\ call.historical
     /\ missing = None /\ pc # "start") =>
    /\ names # <<>>
    /\ names[Len(names)] = call.ts_name.v
    /\ ts_index = Some(Len(names) - 1)
    /\ ~IsNone(columns) /\ columns.v = SubSeq(names, 1, Len(names) - 1)
    /\ RowEncoded => (ts = ExpTs(pos) /\ row = ExpFields(pos))

\* ------------------------------------------------------------------ C9
\* C9: in a historical load_multi call with distinct indexes, the timestamp
\* and tag taken from each row are the row's elements at ts_index and
\* tag_index, and the encoded fields are the row without these two, the order
\* of the rest kept; for mappings the indexes are the last two positions.
C9_PopBothFields ==
  (call.api = "load_multi" /\ call.historical /\ call.kind \in {"seq", "map"}
     /\ (call.kind = "seq" => call.ts_index # call.tag_index)) =>
    /\ (call.kind = "map" /\ pc \in {"_load_multi", "done"}) =>
         /\ ts_index = Some(Len(names) - 2) /\ tag_index = Some(Len(names) - 1)
         /\ names[Len(names) - 1] = call.ts_name.v /\ names[Len(names)] = call.tag_name.v
    /\ RowEncoded =>
         /\ ts = ExpTs(pos) /\ tag = ExpTag(pos)
         /\ row = ExpFields(pos)
         /\ Len(row) = RowWidth - 2

C9_Witness ==
  /\ call.api = "load_multi" /\ call.historical /\ call.kind = "seq"
  /\ call.ts_index = Some(0) /\ call.tag_index = Some(2)
  /\ RowEncoded /\ pos = 2 /\ ts = NatStr(21) /\ tag = NatStr(23)

\* ----------------------------------------------------------------- C10
\* C10: a load or load_multi call that returns has written every input
\* record once and in order, the first record included: the writes are the
\* successive batches of all the rows of the source, none is empty, and
\* nothing is left unwritten in the buffer.
C10_AllDelivered ==
  (call.api \in {"load", "load_multi"} /\ pc = "done") =>
    /\ Len(sent) = CeilDiv(known, Capacity)
    /\ \A k \in 1..Len(sent) :
         /\ sent[k] # <<>>
         /\ sent[k] = ExpBuffer((k - 1) * Capacity + 1, Min(k * Capacity, known))
    /\ bulk_msg = <<>> \/ bulk_msg = sent[Len(sent)]

====
